---- MODULE Spec2Model ----
(***************************************************************************)
(* Model of the voting service (src/server.js): the vote and oauth request *)
(* handlers over the level store, the in-memory country cache, the stats   *)
(* snapshot and the bee-queue job queue.  Node runs each handler           *)
(* atomically between two awaits; every await (db.get, db.put,             *)
(* createJob().save()) is a point where other handlers interleave.         *)
(***************************************************************************)
EXTENDS Integers, Sequences, FiniteSets, TLC

\* ---- bounds -------------------------------------------------------------
MaxHandlers == 2      \* request handlers in flight at the same time
MaxRequests == 4      \* requests served in one behaviour
MaxIds == 2           \* cuid() tokens handed out in one behaviour
MaxJobs == 2          \* jobs the worker is given in one behaviour

Handlers == 1..MaxHandlers
Identities == {"a", "b"}
Countries == {"FR", "DE"}
Consents == {"on", "off"}
Ids == 1..MaxIds

\* ---- records ------------------------------------------------------------
\* A missing field of a JS object is 0 / "" here.
NotFound == [id |-> 0, email |-> "", nationality |-> "", accept |-> "",
             over18 |-> "", created |-> 0, index |-> 0]

NoPayload == [email |-> "", id |-> 0, nationality |-> "", accept |-> "",
              over18 |-> ""]

Payloads == [email : Identities, id : Ids, nationality : Countries,
             accept : Consents, over18 : Consents]

\* the record oauth stores: { id, email }
NewVote(id, e) == [id |-> id, email |-> e, nationality |-> "", accept |-> "",
                   over18 |-> "", created |-> 0, index |-> 0]

\* { ...request.payload, created, index }
FinalVote(p, created, index) ==
    [id |-> p.id, email |-> p.email, nationality |-> p.nationality,
     accept |-> p.accept, over18 |-> p.over18,
     created |-> created, index |-> index]

\* public projection of a vote: the identity is stripped
extractPublicPart(v) ==
    [nationality |-> v.nationality, created |-> v.created, index |-> v.index]

\* the data of a job: the stored vote; confirmed is a field only a payload
\* can bring (FALSE stands for the missing field)
JobOf(v, confirmed) ==
    [id |-> v.id, email |-> v.email, nationality |-> v.nationality,
     accept |-> v.accept, over18 |-> v.over18,
     created |-> v.created, index |-> v.index, confirmed |-> confirmed]

NoJob == JobOf(NotFound, FALSE)

\* the jobs the worker is given: accepted votes
JobDatas ==
    { JobOf(FinalVote(p, 1, 1), c) :
        p \in {q \in Payloads : q.id = 1 /\ q.accept = "on" /\ q.over18 = "on"},
        c \in BOOLEAN }

\* the response the last step sent, if it sent one
NoResponse == [handler |-> 0, status |-> "none"]

VARIABLES db, cache, stats, queue, nextId, now,
          pc, email, payload, vote, putOk, response, served,
          pushed,
          backupCfg, wpc, job, mails, backups, finished

vars == <<db, cache, stats, queue, nextId, now,
          pc, email, payload, vote, putOk, response, served,
          pushed,
          backupCfg, wpc, job, mails, backups, finished>>

\* the state of the worker process
wvars == <<backupCfg, wpc, job, mails, backups, finished>>

\* the state of the server process but the queue
svars == <<db, cache, stats, nextId, now,
           pc, email, payload, vote, putOk, response, served, pushed>>

shared == <<db, cache, stats, queue>>

\* ---- cache and stats ----------------------------------------------------
\* cache.find(c => c.code === code): position of the country, 0 if none
FindCountry(c, code) ==
    IF \E i \in 1..Len(c) : c[i].code = code
    THEN CHOOSE i \in 1..Len(c) :
            c[i].code = code /\ \A j \in 1..(i - 1) : c[j].code # code
    ELSE 0

\* getIndex pushes an empty country when the nationality is new ...
getIndexCache(c, code) ==
    IF FindCountry(c, code) = 0
    THEN Append(c, [code |-> code, vote |-> <<>>])
    ELSE c

\* ... and returns country.vote.length + 1
getIndex(c, code) ==
    Len(getIndexCache(c, code)[FindCountry(getIndexCache(c, code), code)].vote) + 1

\* country.vote = [extractPublicPart(vote), ...country.vote]
Prepend(c, v) ==
    [i \in 1..Len(c) |->
        IF i = FindCountry(c, v.nationality)
        THEN [c[i] EXCEPT !.vote = <<extractPublicPart(v)>> \o @]
        ELSE c[i]]

\* InsertStable with x put before the entries of the same length
InsertBeforeEqual(s, x) ==
    LET k == Cardinality({i \in 1..Len(s) : Len(s[i].vote) > Len(x.vote)})
    IN SubSeq(s, 1, k) \o <<x>> \o SubSeq(s, k + 1, Len(s))

InsertStable(s, x) ==
    LET k == Cardinality({i \in 1..Len(s) : Len(s[i].vote) >= Len(x.vote)})
    IN SubSeq(s, 1, k) \o <<x>> \o SubSeq(s, k + 1, Len(s))

RECURSIVE SortCache(_)
\* cache.sort((a, b) => b.vote.length - a.vote.length), a stable sort
SortCache(s) ==
    IF s = <<>> THEN <<>>
    ELSE InsertStable(SortCache(SubSeq(s, 1, Len(s) - 1)), s[Len(s)])

RECURSIVE SumVotes(_)
SumVotes(s) ==
    IF s = <<>> THEN 0 ELSE Len(s[1].vote) + SumVotes(Tail(s))

\* Slice5 without the cap
SliceAll(s) == s

Slice5(s) == SubSeq(s, 1, IF Len(s) < 5 THEN Len(s) ELSE 5)

createStats(c) ==
    [global |-> [count |-> SumVotes(c)],
     country |-> [i \in 1..Len(c) |->
                    [code |-> c[i].code, count |-> Len(c[i].vote),
                     vote |-> Slice5(c[i].vote)]]]

\* ---- initial state ------------------------------------------------------
Init ==
    /\ db = [e \in Identities |-> NotFound]
    /\ cache = <<>>
    /\ stats = createStats(<<>>)
    /\ queue = <<>>
    /\ nextId = 1
    /\ now = 0
    /\ pc = [h \in Handlers |-> "idle"]
    /\ email = [h \in Handlers |-> ""]
    /\ payload = [h \in Handlers |-> NoPayload]
    /\ vote = [h \in Handlers |-> NotFound]
    /\ putOk = [h \in Handlers |-> FALSE]
    /\ response = NoResponse
    /\ served = 0
    /\ pushed = <<>>
    /\ backupCfg = FALSE
    /\ wpc = "idle"
    /\ job = NoJob
    /\ mails = <<>>
    /\ backups = <<>>
    /\ finished = <<>>

\* a handler slot takes a new request
Accept(h) ==
    /\ pc[h] = "idle"
    /\ served < MaxRequests
    /\ served' = served + 1

\* a handler returns: its locals are gone, the response is r
Return(h, r) ==
    /\ pc' = [pc EXCEPT ![h] = "idle"]
    /\ response' = [handler |-> h, status |-> r]
    /\ email' = [email EXCEPT ![h] = ""]
    /\ payload' = [payload EXCEPT ![h] = NoPayload]
    /\ vote' = [vote EXCEPT ![h] = NotFound]
    /\ putOk' = [putOk EXCEPT ![h] = FALSE]

\* ---- oauth --------------------------------------------------------------
\* db.get(email) resolves: set the cookie and redirect; or it rejects: a new
\* { id, email } is built with a fresh cuid and db.put is issued
OauthStart(h, e) ==
    /\ Accept(h)
    /\ IF db[e] # NotFound
       THEN /\ Return(h, "Redirect")
            /\ UNCHANGED nextId
       ELSE /\ nextId <= MaxIds
            /\ nextId' = nextId + 1
            /\ email' = [email EXCEPT ![h] = e]
            /\ vote' = [vote EXCEPT ![h] = NewVote(nextId, e)]
            /\ pc' = [pc EXCEPT ![h] = "oauth_put"]
            /\ response' = NoResponse
            /\ UNCHANGED <<payload, putOk>>
    /\ UNCHANGED <<db, cache, stats, queue, now, pushed>>
    /\ UNCHANGED wvars

\* the put of oauth settles; a rejected put leaves the handler with an error
OauthPut(h, ok) ==
    /\ pc[h] = "oauth_put"
    /\ db' = IF ok THEN [db EXCEPT ![email[h]] = vote[h]] ELSE db
    /\ Return(h, IF ok THEN "Redirect" ELSE "ServerError")
    /\ UNCHANGED <<cache, stats, queue, nextId, now, served, pushed>>
    /\ UNCHANGED wvars

\* ---- vote (PUT) ---------------------------------------------------------
\* the payload email is compared with the session email, then db.get is
\* issued and resolves with the stored record (or rejects: NotFound)
VoteStart(h, e, p) ==
    /\ Accept(h)
    /\ IF p.email # e
       THEN Return(h, "Forbidden")
       ELSE /\ email' = [email EXCEPT ![h] = e]
            /\ payload' = [payload EXCEPT ![h] = p]
            /\ vote' = [vote EXCEPT ![h] = db[e]]
            /\ pc' = [pc EXCEPT ![h] = "got"]
            /\ response' = NoResponse
            /\ UNCHANGED putOk
    /\ UNCHANGED <<db, cache, stats, queue, nextId, now, pushed>>
    /\ UNCHANGED wvars

Affirmed(p) == p.accept = "on" /\ p.over18 = "on"

\* CheckOutcome with the consent check made before the conflict check
CheckOutcomeConsentFirst(v, p) ==
    IF v = NotFound THEN "ServerError"
    ELSE IF ~Affirmed(p) THEN "NotAcceptable"
    ELSE IF p.id # v.id \/ v.created # 0 THEN "Conflict"
    ELSE "accepted"

\* CheckOutcome with only the first consent field looked at
CheckOutcomeOneConsent(v, p) ==
    IF v = NotFound THEN "ServerError"
    ELSE IF p.id # v.id \/ v.created # 0 THEN "Conflict"
    ELSE IF p.accept # "on" THEN "NotAcceptable"
    ELSE "accepted"

\* the outcome of the checks made on the record db.get returned
CheckOutcome(v, p) ==
    IF v = NotFound THEN "ServerError"
    ELSE IF p.id # v.id \/ v.created # 0 THEN "Conflict"
    ELSE IF ~Affirmed(p) THEN "NotAcceptable"
    ELSE "accepted"

\* the handler resumes after db.get
VoteCheck(h) ==
    /\ pc[h] = "got"
    /\ IF CheckOutcome(vote[h], payload[h]) = "accepted"
       THEN /\ now' = now + 1
            /\ cache' = getIndexCache(cache, payload[h].nationality)
            /\ pushed' = IF FindCountry(cache, payload[h].nationality) = 0
                          THEN Append(pushed, payload[h].nationality)
                          ELSE pushed
            /\ vote' = [vote EXCEPT ![h] =
                   FinalVote(payload[h], now + 1,
                             getIndex(cache, payload[h].nationality))]
            /\ pc' = [pc EXCEPT ![h] = "putting"]
            /\ response' = NoResponse
            /\ UNCHANGED <<email, payload, putOk>>
       ELSE /\ Return(h, CheckOutcome(vote[h], payload[h]))
            /\ UNCHANGED <<now, cache, pushed>>
    /\ UNCHANGED <<db, stats, queue, nextId, served>>
    /\ UNCHANGED wvars

\* db.put(email, vote) settles: the store takes the record, or the put fails
VotePut(h, ok) ==
    /\ pc[h] = "putting"
    /\ db' = IF ok THEN [db EXCEPT ![email[h]] = vote[h]] ELSE db
    /\ putOk' = [putOk EXCEPT ![h] = ok]
    /\ pc' = [pc EXCEPT ![h] = "put_done"]
    /\ response' = NoResponse
    /\ UNCHANGED <<cache, stats, queue, nextId, now, email, payload, vote,
                   served, pushed>>
    /\ UNCHANGED wvars

\* applyVote without the sort
applyVoteUnsorted(c, v) == Prepend(c, v)

\* the cache after a stored vote: prepend, sort
applyVote(c, v) == SortCache(Prepend(c, v))

\* the handler resumes after db.put: on success the cache and the stats are
\* updated, on failure the error is logged; then the job is created
VoteAfterPut(h) ==
    /\ pc[h] = "put_done"
    /\ IF putOk[h]
       THEN /\ cache' = applyVote(cache, vote[h])
            /\ stats' = createStats(applyVote(cache, vote[h]))
       ELSE UNCHANGED <<cache, stats>>
    /\ pc' = [pc EXCEPT ![h] = "saving"]
    /\ response' = NoResponse
    /\ UNCHANGED <<db, queue, nextId, now, email, payload, vote, putOk,
                   served, pushed>>
    /\ UNCHANGED wvars

\* VoteSave with a failed save surfaced to the submitter
VoteSaveSurfacing(h, ok) ==
    /\ pc[h] = "saving"
    /\ queue' = IF ok THEN Append(queue, vote[h]) ELSE queue
    /\ Return(h, IF ok THEN "NoContent" ELSE "ServerError")
    /\ UNCHANGED <<db, cache, stats, nextId, now, served, pushed>>
    /\ UNCHANGED wvars

\* createJob(vote).save() settles, whatever its outcome the handler answers
\* 204
VoteSave(h, ok) ==
    /\ pc[h] = "saving"
    /\ queue' = IF ok THEN Append(queue, vote[h]) ELSE queue
    /\ Return(h, "NoContent")
    /\ UNCHANGED <<db, cache, stats, nextId, now, served, pushed>>
    /\ UNCHANGED wvars

\* ---- reads --------------------------------------------------------------
\* GET /votes/{countryCode}: the cache entry of the country (NoCountry when
\* cache.find returns undefined)
NoCountry == [code |-> "", vote |-> <<>>]

listVotes(countryCode) ==
    IF FindCountry(cache, countryCode) = 0 THEN NoCountry
    ELSE cache[FindCountry(cache, countryCode)]

\* GET /stats: the stats snapshot
listStats == stats

Next ==
    \/ \E h \in Handlers, e \in Identities : OauthStart(h, e)
    \/ \E h \in Handlers, ok \in BOOLEAN : OauthPut(h, ok)
    \/ \E h \in Handlers, e \in Identities, p \in Payloads : VoteStart(h, e, p)
    \/ \E h \in Handlers : VoteCheck(h)
    \/ \E h \in Handlers, ok \in BOOLEAN : VotePut(h, ok)
    \/ \E h \in Handlers : VoteAfterPut(h)
    \/ \E h \in Handlers, ok \in BOOLEAN : VoteSave(h, ok)

Spec == Init /\ [][Next]_vars

\* ---- start on a store that holds votes ----------------------------------
\* finalized records of earlier voters, as db.createValueStream() gives them
EarlierVotes ==
    [i \in 1..5 |->
        [id |-> 10 + i, email |-> "earlier", nationality |-> "FR",
         accept |-> "on", over18 |-> "on", created |-> i, index |-> i]]

RECURSIVE populateCache(_)
\* the cache built from the records of the store: every finalized record is
\* folded into its country, records without a vote are skipped
populateCache(records) ==
    IF records = <<>> THEN <<>>
    ELSE LET c == populateCache(SubSeq(records, 1, Len(records) - 1))
             r == records[Len(records)]
         IN IF r.created = 0 THEN c
            ELSE applyVote(getIndexCache(c, r.nationality), r)

\* the process starts on a store with five votes for FR, of identities that
\* make no request any more
InitStored ==
    /\ db = [e \in Identities |-> NotFound]
    /\ cache = populateCache(EarlierVotes)
    /\ stats = createStats(populateCache(EarlierVotes))
    /\ queue = <<>>
    /\ nextId = 1
    /\ now = 5
    /\ pc = [h \in Handlers |-> "idle"]
    /\ email = [h \in Handlers |-> ""]
    /\ payload = [h \in Handlers |-> NoPayload]
    /\ vote = [h \in Handlers |-> NotFound]
    /\ putOk = [h \in Handlers |-> FALSE]
    /\ response = NoResponse
    /\ served = 0
    /\ pushed = <<"FR">>
    /\ backupCfg = FALSE
    /\ wpc = "idle"
    /\ job = NoJob
    /\ mails = <<>>
    /\ backups = <<>>
    /\ finished = <<>>

SpecStored == InitStored /\ [][Next]_vars

\* ---- worker process -----------------------------------------------------
\* the mail generateMail builds for a vote
generateMail(v) ==
    [to |-> v.email,
     subject |-> IF v.confirmed THEN "Your vote was registered successfully"
                 ELSE "Please confirm your vote"]

\* config.backup.url && config.backup.token && job.data.confirmed
BackupWanted(v) == backupCfg /\ v.confirmed

\* the handler of a job has returned: the job has succeeded
JobDone ==
    /\ wpc' = "idle"
    /\ job' = NoJob
    /\ finished' = Append(finished, [data |-> job, status |-> "succeeded"])

\* the server saves the job of an accepted vote (createJob(vote).save())
EnqueueJob(data) ==
    /\ Len(queue) + Len(finished) + (IF wpc = "idle" THEN 0 ELSE 1) < MaxJobs
    /\ queue' = Append(queue, data)
    /\ UNCHANGED wvars
    /\ UNCHANGED svars

\* the queue hands the next job to the handler, which calls sendMail
WorkerTake ==
    /\ wpc = "idle"
    /\ queue # <<>>
    /\ job' = Head(queue)
    /\ queue' = Tail(queue)
    /\ wpc' = "mail"
    /\ UNCHANGED <<backupCfg, mails, backups, finished>>
    /\ UNCHANGED svars

\* WorkerMail with one try around both effects: a failed mail ends the job
WorkerMailOneTry(ok) ==
    /\ wpc = "mail"
    /\ mails' = Append(mails, [mail |-> generateMail(job), ok |-> ok])
    /\ IF ok /\ BackupWanted(job)
       THEN wpc' = "backup" /\ UNCHANGED <<job, finished>>
       ELSE JobDone
    /\ UNCHANGED <<backupCfg, backups, queue>>
    /\ UNCHANGED svars

\* WorkerMail with the backup made for every job once it is configured
WorkerMailBackupAll(ok) ==
    /\ wpc = "mail"
    /\ mails' = Append(mails, [mail |-> generateMail(job), ok |-> ok])
    /\ IF backupCfg
       THEN wpc' = "backup" /\ UNCHANGED <<job, finished>>
       ELSE JobDone
    /\ UNCHANGED <<backupCfg, backups, queue>>
    /\ UNCHANGED svars

\* WorkerMail with a failed mail thrown out of the handler: the job fails
WorkerMailThrows(ok) ==
    /\ wpc = "mail"
    /\ mails' = Append(mails, [mail |-> generateMail(job), ok |-> ok])
    /\ IF ~ok
       THEN /\ wpc' = "idle" /\ job' = NoJob
            /\ finished' = Append(finished, [data |-> job, status |-> "failed"])
       ELSE IF BackupWanted(job)
       THEN wpc' = "backup" /\ UNCHANGED <<job, finished>>
       ELSE JobDone
    /\ UNCHANGED <<backupCfg, backups, queue>>
    /\ UNCHANGED svars

\* sendMail settles (a failure is logged); then the backup is posted if it
\* is wanted, else the handler returns
WorkerMail(ok) ==
    /\ wpc = "mail"
    /\ mails' = Append(mails, [mail |-> generateMail(job), ok |-> ok])
    /\ IF BackupWanted(job)
       THEN wpc' = "backup" /\ UNCHANGED <<job, finished>>
       ELSE JobDone
    /\ UNCHANGED <<backupCfg, backups, queue>>
    /\ UNCHANGED svars

\* fetch settles (a failure is logged) and the handler returns
WorkerBackup(ok) ==
    /\ wpc = "backup"
    /\ backups' = Append(backups, [body |-> job, ok |-> ok])
    /\ JobDone
    /\ UNCHANGED <<backupCfg, mails, queue>>
    /\ UNCHANGED svars

\* the worker starts with or without a backup destination in its config
InitWorker ==
    /\ db = [e \in Identities |-> NotFound]
    /\ cache = <<>>
    /\ stats = createStats(<<>>)
    /\ queue = <<>>
    /\ nextId = 1
    /\ now = 0
    /\ pc = [h \in Handlers |-> "idle"]
    /\ email = [h \in Handlers |-> ""]
    /\ payload = [h \in Handlers |-> NoPayload]
    /\ vote = [h \in Handlers |-> NotFound]
    /\ putOk = [h \in Handlers |-> FALSE]
    /\ response = NoResponse
    /\ served = 0
    /\ pushed = <<>>
    /\ backupCfg \in BOOLEAN
    /\ wpc = "idle"
    /\ job = NoJob
    /\ mails = <<>>
    /\ backups = <<>>
    /\ finished = <<>>

NextWorker ==
    \/ \E data \in JobDatas : EnqueueJob(data)
    \/ WorkerTake
    \/ \E ok \in BOOLEAN : WorkerMail(ok)
    \/ \E ok \in BOOLEAN : WorkerBackup(ok)

SpecWorker == InitWorker /\ [][NextWorker]_vars

\* a job handed to the handler is run, and sendMail and fetch settle
SpecWorkerFair ==
    /\ SpecWorker
    /\ WF_vars(WorkerTake)
    /\ WF_vars(\E ok \in BOOLEAN : WorkerMail(ok))
    /\ WF_vars(\E ok \in BOOLEAN : WorkerBackup(ok))

\* ---- helpers of the properties -------------------------------------------
Quiescent == \A h \in Handlers : pc[h] = "idle"

Finalized(e) == db[e].created # 0

\* handler h has had its finalized record taken by the store
Committed(h) == pc[h] \in {"put_done", "saving"} /\ putOk[h]

\* number of votes the cache holds for a country, 0 if the country is unseen
CountOf(code) ==
    IF FindCountry(cache, code) = 0 THEN 0
    ELSE Len(cache[FindCountry(cache, code)].vote)

\* ---- properties ----------------------------------------------------------

\* C1: for every identity at most one submit finalizes a vote: no two
\* handlers of the same identity both have their finalized record written.
C1_OneFinalizerPerIdentity ==
    \A h1, h2 \in Handlers :
        (h1 # h2 /\ Committed(h1) /\ Committed(h2)) => email[h1] # email[h2]

\* C2: once the store holds a finalized record for an identity, no step
\* changes that record.
C2_FinalizedIsImmutable ==
    [][\A e \in Identities : Finalized(e) => db'[e] = db[e]]_vars

\* C3: two different identities finalized for the same country never hold
\* the same index.
C3_DistinctIndexPerCountry ==
    \A e1, e2 \in Identities :
        (e1 # e2 /\ Finalized(e1) /\ Finalized(e2)
            /\ db[e1].nationality = db[e2].nationality)
        => db[e1].index # db[e2].index

\* C4: for every country the indexes of the finalized records of the store
\* are exactly 1..totalCount of the country (stated when no handler is in
\* flight, where store and cache have both been updated).
C4_IndexesAreOneToCount ==
    Quiescent =>
        \A c \in Countries :
            {db[e].index : e \in {x \in Identities :
                                    Finalized(x) /\ db[x].nationality = c}}
            = 1..CountOf(c)

\* C5: when no handler is in flight the global count of the stats snapshot
\* is the number of finalized records of the store.
C5_GlobalCountIsStoreCount ==
    Quiescent =>
        stats.global.count = Cardinality({e \in Identities : Finalized(e)})

\* C6: a submit whose store write failed is not answered with success
\* (no content) but with a server error.
C6_FailedPutIsServerError ==
    [][\A h \in Handlers :
        (pc[h] = "saving" /\ ~putOk[h] /\ pc'[h] # "saving")
        => response' = [handler |-> h, status |-> "ServerError"]]_vars

\* C7: every job in the queue carries the record the store holds, finalized,
\* for the job's identity.
C7_JobsAreStoredVotes ==
    \A i \in 1..Len(queue) :
        /\ Finalized(queue[i].email)
        /\ db[queue[i].email] = queue[i]

\* C8: a submit (past the session email check) whose payload id differs
\* from the id of the record read, or whose record read is finalized, is
\* answered Conflict whatever its consent fields, and store, cache, stats
\* and queue stay as they are.
C8_ConflictLeavesStateAlone ==
    [][\A h \in Handlers :
        (/\ pc[h] = "got" /\ pc'[h] # "got"
         /\ vote[h] # NotFound
         /\ (payload[h].id # vote[h].id \/ vote[h].created # 0))
        => (/\ response' = [handler |-> h, status |-> "Conflict"]
            /\ UNCHANGED shared)]_vars

\* C8 happens: a Conflict has just been answered while votes are stored,
\* cached and queued.
C8_Witness ==
    /\ response.status = "Conflict"
    /\ \E e \in Identities : Finalized(e)
    /\ cache # <<>> /\ queue # <<>>

\* C9: a submit with the right id for a registered, unfinalized identity
\* in which a consent field is not 'on' is answered NotAcceptable; store,
\* cache (its list of countries too), stats and queue stay as they are, and
\* the record of the identity is still unfinalized.
C9_NotAcceptableLeavesStateAlone ==
    [][\A h \in Handlers :
        (/\ pc[h] = "got" /\ pc'[h] # "got"
         /\ vote[h] # NotFound
         /\ payload[h].id = vote[h].id /\ vote[h].created = 0
         /\ (payload[h].accept # "on" \/ payload[h].over18 # "on"))
        => (/\ response' = [handler |-> h, status |-> "NotAcceptable"]
            /\ UNCHANGED shared
            /\ (db[email[h]].created = 0 => db'[email[h]].created = 0))]_vars

\* C9 happens: NotAcceptable has just been answered.
C9_Witness ==
    /\ response.status = "NotAcceptable"
    /\ \E e \in Identities : db[e] # NotFound /\ ~Finalized(e)

\* C10: when the store write succeeded and the enqueue fails, the submit is
\* still answered with success and the stored record, the cache and the
\* stats are kept.
C10_EnqueueFailureStillSuccess ==
    [][\A h \in Handlers :
        (pc[h] = "saving" /\ putOk[h] /\ pc'[h] # "saving" /\ queue' = queue)
        => (/\ response' = [handler |-> h, status |-> "NoContent"]
            /\ db' = db /\ cache' = cache /\ stats' = stats)]_vars

\* C10 happens: every handler has returned, a vote is counted and stored,
\* and no job was queued: its enqueue failed.
C10_Witness ==
    /\ Quiescent
    /\ response.status = "NoContent"
    /\ queue = <<>>
    /\ stats.global.count > 0
    /\ \E e \in Identities : Finalized(e)

\* position of a code in a sequence of codes, 0 if it is not there
PosIn(codes, code) ==
    IF \E i \in 1..Len(codes) : codes[i] = code
    THEN CHOOSE i \in 1..Len(codes) : codes[i] = code
    ELSE 0

\* C11: a submit for an identity without a record in the store is answered
\* with the forbidden-class IdentityNotRegistered error, not a server error,
\* and store, cache, stats and queue stay as they are.
C11_UnregisteredIsForbidden ==
    [][\A h \in Handlers :
        (pc[h] = "got" /\ pc'[h] # "got" /\ vote[h] = NotFound)
        => (/\ response' = [handler |-> h, status |-> "Forbidden"]
            /\ UNCHANGED shared)]_vars

\* C12: the id of an identity is set by its first registration and never
\* changes afterwards.
C12_IdAssignedOnce ==
    [][\A e \in Identities : db[e] # NotFound => db'[e].id = db[e].id]_vars

\* C13: in every state the country list of the stats snapshot is ordered by
\* count, largest first.
C13_StatsSortedByCount ==
    \A i, j \in 1..Len(listStats.country) :
        i < j => listStats.country[i].count >= listStats.country[j].count

\* C13 happens: the snapshot ranks a country with more votes ahead of a
\* country whose aggregate was created before it.
C13_Witness ==
    /\ Len(listStats.country) = 2
    /\ listStats.country[1].count > listStats.country[2].count
    /\ PosIn(pushed, listStats.country[1].code)
         > PosIn(pushed, listStats.country[2].code)

\* C17: every country the country query can return has at least one vote.
C17_NoCountryWithoutVote ==
    \A c \in Countries :
        listVotes(c) # NoCountry => Len(listVotes(c).vote) >= 1

\* C18: countries with the same count are ranked in the order in which
\* their aggregates were created.
C18_TiesInCreationOrder ==
    \A i, j \in 1..Len(listStats.country) :
        (i < j /\ listStats.country[i].count = listStats.country[j].count)
        => PosIn(pushed, listStats.country[i].code)
             < PosIn(pushed, listStats.country[j].code)

\* C18 as amended: countries with the same count after a step are ranked in
\* the relative order they had in the list before the step (the sort is
\* stable), which is their creation order only until one overtakes another.
C18_TiesKeepPreviousOrder ==
    [][\A x, y \in Countries :
        (/\ FindCountry(cache, x) # 0 /\ FindCountry(cache, y) # 0
         /\ FindCountry(cache, x) < FindCountry(cache, y)
         /\ Len(cache'[FindCountry(cache', x)].vote)
              = Len(cache'[FindCountry(cache', y)].vote))
        => FindCountry(cache', x) < FindCountry(cache', y)]_vars

\* C18 (amended) happens: two countries with the same number of votes, at
\* least one each, ranked against their creation order.
C18_Witness ==
    \E i, j \in 1..Len(listStats.country) :
        /\ i < j
        /\ listStats.country[i].count = listStats.country[j].count
        /\ listStats.country[i].count > 0
        /\ PosIn(pushed, listStats.country[i].code)
             > PosIn(pushed, listStats.country[j].code)

\* C20: in every state the stats snapshot is what createStats gives on the
\* current cache: the same codes in the same order with the same counts,
\* and a global count that is the sum of the counts.
C20_StatsMatchCache ==
    /\ Len(listStats.country) = Len(cache)
    /\ \A i \in 1..Len(cache) :
          /\ listStats.country[i].code = cache[i].code
          /\ listStats.country[i].count = Len(cache[i].vote)
    /\ listStats.global.count = SumVotes(cache)

\* the data of the finished jobs that are confirmed
IsConfirmed(f) == f.data.confirmed

ConfirmedDone == SelectSeq(finished, IsConfirmed)

C16_EffectsIndependent ==
    [][/\ (wpc = "mail" /\ wpc' # "mail")
            => ((wpc' = "backup") <=> (backupCfg /\ job.confirmed))
       /\ (wpc = "backup" /\ wpc' # "backup") => mails' = mails]_vars

\* C16 happens: the mail of a job failed and its backup was attempted.
C16_Witness ==
    /\ Len(mails) = 1 /\ ~mails[1].ok
    /\ Len(backups) = 1 /\ ~backups[1].ok
    /\ backups[1].body.email = mails[1].mail.to
    /\ Len(finished) = 1

\* every finished job succeeded, and has had one mail and at most one backup
JobsRunOnce ==
    /\ \A i \in 1..Len(finished) : finished[i].status = "succeeded"
    /\ Len(mails) = Len(finished) + (IF wpc = "backup" THEN 1 ELSE 0)
    /\ Len(backups) <= Len(finished)

\* C19: a job handed to the handler runs to the end of its attempt whatever
\* the outcome of the mail and of the backup: it never ends failed, each
\* effect is attempted at most once per job, and the handler returns.
C19_JobsRunToCompletion ==
    /\ []JobsRunOnce
    /\ (wpc # "idle") ~> (wpc = "idle")

\* C19 happens: a job whose mail and backup both failed has finished.
C19_Witness ==
    /\ Len(finished) = 1 /\ finished[1].status = "succeeded"
    /\ Len(mails) = 1 /\ ~mails[1].ok
    /\ Len(backups) = 1 /\ ~backups[1].ok
    /\ wpc = "idle"

\* the votes the country query returns for a code
VotesOf(code) == listVotes(code).vote

====
